---- MODULE Spec2Model ----
(***************************************************************************)
(* A model of the video cropper (src/video_cropper): the crop-box geometry *)
(* of core.py, the Tkinter application of app.py and the ffmpeg wrappers   *)
(* of ffmpeg_utils.py.                                                     *)
(*                                                                         *)
(* Python floats are IEEE-754 doubles.  Every float expression of the      *)
(* geometry has one of the two shapes int(c * (a / b)) and                 *)
(* int(c / (a / b)) with small integers a >= 0, b > 0 and c; IntMul and    *)
(* IntDiv compute the value the double arithmetic yields, including the    *)
(* cases where the quotient a / b is rounded and the truncation lands one  *)
(* below the exact integer (49 * (1 / 49) is 0.9999999999999999).          *)
(***************************************************************************)
EXTENDS Integers, Sequences, FiniteSets, TLC

\* ------------------------------------------------------------------ bounds
\* In the calls of the core.py functions image sides range over 1..MaxImg and
\* canvas sides over 1..MaxCanvas.  The application runs on a square canvas
\* of side MaxCanvas and starts with one video, of side MaxImg - 1.
MaxImg == 3
MaxCanvas == 3

\* ------------------------------------------------------- double arithmetic
Max(a, b) == IF a >= b THEN a ELSE b
Min(a, b) == IF a <= b THEN a ELSE b

RECURSIVE Pow2(_)
Pow2(e) == IF e = 0 THEN 1 ELSE 2 * Pow2(e - 1)

\* x <= y * 2^e for x, y >= 0 and any integer e, without forming 2^e.
RECURSIVE LeqPow2(_, _, _)
LeqPow2(x, y, e) ==
    IF x = 0 THEN TRUE
    ELSE IF y = 0 THEN FALSE
    ELSE IF e = 0 THEN x <= y
    ELSE IF e > 0 THEN (IF x <= y THEN TRUE ELSE LeqPow2(x, 2 * y, e - 1))
    ELSE (IF x > y THEN FALSE ELSE LeqPow2(2 * x, y, e + 1))

\* floor(log2 n) for n >= 1.
RECURSIVE FloorLog2(_)
FloorLog2(n) == IF n < 2 THEN 0 ELSE 1 + FloorLog2(n \div 2)

\* floor(log2(a / b)) for a, b >= 1: the binary exponent of the quotient.
RECURSIVE RatioLog2Up(_, _, _)
RatioLog2Up(a, b, L) == IF 2 * b * Pow2(L) <= a THEN RatioLog2Up(a, b, L + 1) ELSE L
RECURSIVE RatioLog2Down(_, _, _)
RatioLog2Down(a, b, L) == IF a * Pow2(L) < b THEN RatioLog2Down(a, b, L + 1) ELSE 0 - L
RatioLog2(a, b) ==
    IF a = 0 THEN 0 ELSE IF a >= b THEN RatioLog2Up(a, b, 0) ELSE RatioLog2Down(a, b, 1)

\* Long division of a by b, k more binary digits: <<remainder, last digit>>.
RECURSIVE LongDiv(_, _, _, _)
LongDiv(r, bit, b, k) ==
    IF k = 0 THEN <<r, bit>>
    ELSE LongDiv((2 * r) % b, IF 2 * r >= b THEN 1 ELSE 0, b, k - 1)

\* Round half to even, given <<remainder, last digit>> of the long division.
RoundPick(d, b) ==
    IF 2 * d[1] < b THEN d[1]
    ELSE IF 2 * d[1] > b THEN d[1] - b
    ELSE IF d[2] = 0 THEN d[1] ELSE d[1] - b

\* The rounding of the double a / b, as the signed remainder
\* rho = a * 2^k - m * b, where m is the 53-bit mantissa (round half to even)
\* and k = 52 - floor(log2(a / b)).  rho > 0: the double is below a / b;
\* rho < 0: above; rho = 0: a / b is exact.
RoundRem(a, b) == RoundPick(LongDiv(a % b, (a \div b) % 2, b, 52 - RatioLog2(a, b)), b)

\* 1 if n is a power of two (the doubles below it are twice as dense).
DenseBelow(n, E) == IF n = Pow2(E) THEN 1 ELSE 0

\* Whether the double just below the exact integer n absorbs an error of
\* err / (den * 2^k): the product or quotient still rounds to n.
RoundsTo(n, err, den, a, b) ==
    LeqPow2(err, den, FloorLog2(n) - 1 - DenseBelow(n, FloorLog2(n)) - RatioLog2(a, b))

\* The truncation of a product c * (a / b) whose exact value is the integer n.
MulExact(c, a, b, n, rho) ==
    IF rho <= 0 THEN n ELSE IF RoundsTo(n, c * rho, b, a, b) THEN n ELSE n - 1

\* int(c * (a / b)) in double arithmetic, a >= 0, b >= 1, c >= 0.
IntMulPos(c, a, b) ==
    IF (c * a) % b # 0 \/ (c * a) \div b = 0 THEN (c * a) \div b
    ELSE MulExact(c, a, b, (c * a) \div b, RoundRem(a, b))

Abs(c) == IF c < 0 THEN 0 - c ELSE c
Sign(c) == IF c < 0 THEN 0 - 1 ELSE 1

\* int() truncates toward zero, and  -c * q  is  -(c * q)  in doubles.
IntMul(c, a, b) == Sign(c) * IntMulPos(Abs(c), a, b)

\* The truncation of a quotient c / (a / b) whose exact value is the integer n.
DivExact(c, a, b, n, rho) ==
    IF rho >= 0 THEN n ELSE IF RoundsTo(n, (0 - rho) * n, a, a, b) THEN n ELSE n - 1

\* int(c / (a / b)) in double arithmetic, a, b >= 1, c >= 0.
IntDiv(c, a, b) ==
    IF (c * b) % a # 0 \/ (c * b) \div a = 0 THEN (c * b) \div a
    ELSE DivExact(c, a, b, (c * b) \div a, RoundRem(a, b))

\* ---------------------------------------------------------------- core.py
\* A ratio is <<numerator, denominator>>; None is <<0, 0>> (falsy).
None == <<0, 0>>
ASPECT_PRESETS ==
    [ n \in {"Freeform", "CinemaScope", "YouTube", "Reel", "TikTok", "Square"} |->
        CASE n = "Freeform" -> None
          [] n = "CinemaScope" -> <<239, 100>>
          [] n = "YouTube" -> <<16, 9>>
          [] n = "Reel" -> <<9, 16>>
          [] n = "TikTok" -> <<9, 16>>
          [] n = "Square" -> <<1, 1>> ]
Ratios == {ASPECT_PRESETS[n] : n \in DOMAIN ASPECT_PRESETS}

CropBox(x, y, width, height) == [x |-> x, y |-> y, width |-> width, height |-> height]

full_frame_crop(image_width, image_height) == CropBox(0, 0, image_width, image_height)

\* x = (image_width - width) // 2, y = (image_height - height) // 2
CenteredBox(image_width, image_height, width, height) ==
    CropBox((image_width - width) \div 2, (image_height - height) \div 2, width, height)

\* The branch on base_height <= image_height.
RatioBox(image_width, image_height, ratio, base_height) ==
    IF base_height <= image_height
    THEN CenteredBox(image_width, image_height, image_width, base_height)
    ELSE CenteredBox(image_width, image_height,
                     IntMul(image_height, ratio[1], ratio[2]), image_height)

centered_crop_for_ratio(image_width, image_height, ratio) ==
    RatioBox(image_width, image_height, ratio, IntDiv(image_width, ratio[1], ratio[2]))

\* <<display_width, display_height, offset_x, offset_y>>
Letterboxed(canvas_width, canvas_height, display_width, display_height) ==
    <<display_width, display_height,
      (canvas_width - display_width) \div 2, (canvas_height - display_height) \div 2>>

\* The two ratios are quotients of small integers, which round to distinct
\* doubles when they differ, so the float comparison is the exact one.
_display_rect(image_width, image_height, canvas_width, canvas_height) ==
    IF image_width * canvas_height > canvas_width * image_height
    THEN Letterboxed(canvas_width, canvas_height,
                     canvas_width, IntDiv(canvas_width, image_width, image_height))
    ELSE Letterboxed(canvas_width, canvas_height,
                     IntMul(canvas_height, image_width, image_height), canvas_height)

\* The result of a call: the box, or raised = TRUE for ZeroDivisionError.
Returned(box) == [raised |-> FALSE, box |-> box]
Raised == [raised |-> TRUE, box |-> CropBox(0, 0, 0, 0)]

\* A clamp that takes the lower bound for the upper one.
ClampToLow(v, lo, hi) == Max(lo, Min(v, lo))

\* max(lo, min(v, hi))
Clamp(v, lo, hi) == Max(lo, Min(v, hi))

\* width = max(1, min(width, image_width - x)), and so for the height.
ClampedBox(image_width, image_height, x, y, width, height) ==
    CropBox(x, y, Max(1, Min(width, image_width - x)), Max(1, Min(height, image_height - y)))

\* if aspect_ratio: width = int(height * aspect_ratio)
PinnedWidth(width, height, aspect_ratio) ==
    IF aspect_ratio # None THEN IntMul(height, aspect_ratio[1], aspect_ratio[2]) ELSE width

\* The box of the clamped drag x0..x1, y0..y1 in the display rectangle d.
ScaledBox(image_width, image_height, d, x0, y0, x1, y1, aspect_ratio) ==
    ClampedBox(image_width, image_height,
               IntMul(x0 - d[3], image_width, d[1]),
               IntMul(y0 - d[4], image_height, d[2]),
               PinnedWidth(IntMul(x1 - x0, image_width, d[1]),
                           IntMul(y1 - y0, image_height, d[2]), aspect_ratio),
               IntMul(y1 - y0, image_height, d[2]))

\* scale_x = image_width / display_width raises when the display is empty.
DragInRect(image_width, image_height, d, x0, y0, x1, y1, aspect_ratio) ==
    IF d[1] = 0 \/ d[2] = 0 THEN Raised
    ELSE Returned(ScaledBox(image_width, image_height, d,
                            Clamp(x0, d[3], d[3] + d[1]), Clamp(y0, d[4], d[4] + d[2]),
                            Clamp(x1, d[3], d[3] + d[1]), Clamp(y1, d[4], d[4] + d[2]),
                            aspect_ratio))

crop_box_from_canvas_drag(image_width, image_height, canvas_width, canvas_height, x0, y0, x1, y1, aspect_ratio) ==
    DragInRect(image_width, image_height,
               _display_rect(image_width, image_height, canvas_width, canvas_height),
               x0, y0, x1, y1, aspect_ratio)

\* ----------------------------------------------------------------- app.py
\* The letterbox of _draw_canvas and _update_crop_from_canvas, which both
\* compute it inline: <<display_width, display_height, offset_x, offset_y>>.
letterbox(image, canvas_width, canvas_height) ==
    IF image[1] * canvas_height > canvas_width * image[2]
    THEN Letterboxed(canvas_width, canvas_height,
                     canvas_width, IntDiv(canvas_width, image[1], image[2]))
    ELSE Letterboxed(canvas_width, canvas_height,
                     IntMul(canvas_height, image[1], image[2]), canvas_height)

\* scale_x = display_width / image.width; x0 = offset_x + int(box.x * scale_x), ...
BoxOnCanvas(image, box, d) ==
    <<d[3] + IntMul(box.x, d[1], image[1]),
      d[4] + IntMul(box.y, d[2], image[2]),
      d[3] + IntMul(box.x + box.width, d[1], image[1]),
      d[4] + IntMul(box.y + box.height, d[2], image[2])>>

\* The rectangle _draw_canvas draws for the crop box: <<x0, y0, x1, y1>>.
_draw_canvas(image, canvas_width, canvas_height, box) ==
    BoxOnCanvas(image, box, letterbox(image, canvas_width, canvas_height))

\* A variant of _update_crop_from_canvas that does not pin the width.
UpdateCropFreeform(image, canvas_width, canvas_height, x0, y0, x1, y1, aspect_ratio) ==
    DragInRect(image[1], image[2], letterbox(image, canvas_width, canvas_height),
               x0, y0, x1, y1, None)

_update_crop_from_canvas(image, canvas_width, canvas_height, x0, y0, x1, y1, aspect_ratio) ==
    DragInRect(image[1], image[2], letterbox(image, canvas_width, canvas_height),
               x0, y0, x1, y1, aspect_ratio)

_set_box_from_ratio(image, ratio) ==
    RatioBox(image[1], image[2], ratio, IntDiv(image[1], ratio[1], ratio[2]))

\* ------------------------------------------------------------------- state
VARIABLES
    video_path,     \* self.video_path: a path, or NoPath for None
    current_image,  \* self.current_image: its size <<w, h>>, or NoImage for None
    crop_box,       \* self.crop_box
    drag_start,     \* self.drag_start: <<x, y>>, or NoPoint for None
    aspect_ratio,   \* self.aspect_ratio: a ratio, or None
    fs,             \* the file system: path -> file
    exports,        \* the worker threads running _run_export, by slot
    after_queue,    \* callbacks queued by root.after: paths to reload
    last,           \* what the step just taken did (an observation, not program state)
    player,         \* self.media_player, self.duration, self.is_playing, self.playback_job
    trace,          \* the handler that ran last and what it started from (an observation)
    call,           \* a call of a core.py function: its arguments
    ret             \* and what it returned

app_vars == <<video_path, current_image, crop_box, drag_start, aspect_ratio,
              fs, exports, after_queue, last, player, trace>>
vars == <<video_path, current_image, crop_box, drag_start, aspect_ratio,
          fs, exports, after_queue, last, player, trace, call, ret>>

NoImage == <<0, 0>>
NoPoint == <<0 - 9, 0 - 9>>
NoPath == <<"none", 0>>

\* ------------------------------------------------- calls of core.py functions
Sides(n) == 1..n
ImageSizes == Sides(MaxImg) \X Sides(MaxImg)
CanvasSizes == Sides(MaxCanvas) \X Sides(MaxCanvas)
\* Sizes beyond the bounds where the double arithmetic is inexact.
InexactImageSizes == {<<9, 7>>, <<1, 49>>}
InexactCanvasSizes == {<<9, 8>>, <<49, 49>>}
PinnedRatios == Ratios \ {None}

Call(fn, image, canvas, drag, ratio, box) ==
    [fn |-> fn, image |-> image, canvas |-> canvas, drag |-> drag, ratio |-> ratio, box |-> box]
NoDrag == <<0, 0, 0, 0>>
NoBox == CropBox(0, 0, 0, 0)
NoRect == <<0, 0, 0, 0>>
NoCall == Call("none", NoImage, NoImage, NoDrag, None, NoBox)
NoRet == [done |-> FALSE, raised |-> FALSE, box |-> NoBox, rect |-> NoRect]

\* The CropBox invariant of the data model, for an image of size <<w, h>>.
BoxWithin(box, image) ==
    /\ 0 <= box.x /\ 0 <= box.y
    /\ box.width >= 1 /\ box.height >= 1
    /\ box.x + box.width <= image[1]
    /\ box.y + box.height <= image[2]

BoxesWithin(image) ==
    {b \in [x : 0..image[1], y : 0..image[2], width : 1..image[1], height : 1..image[2]] :
        BoxWithin(b, image)}

DisplayRectCalls ==
    {Call("_display_rect", i, c, NoDrag, None, NoBox) :
        i \in ImageSizes \cup InexactImageSizes, c \in CanvasSizes \cup InexactCanvasSizes}
CenteredCalls ==
    {Call("centered_crop_for_ratio", i, NoImage, NoDrag, r, NoBox) :
        i \in ImageSizes \cup InexactImageSizes, r \in PinnedRatios \cup {<<9, 7>>}}
RoundTripCalls ==
    UNION {{Call("round_trip", i, c, NoDrag, None, b) : b \in BoxesWithin(i), c \in CanvasSizes} :
        i \in ImageSizes}
\* The coordinates of a drag: on the canvas, and one pixel beyond it.
DragCoords(side) == 0..(side + 1)

EvalDisplayRect ==
    /\ call.fn = "_display_rect" /\ ~ret.done
    /\ ret' = [NoRet EXCEPT !.done = TRUE,
                  !.rect = _display_rect(call.image[1], call.image[2], call.canvas[1], call.canvas[2])]
    /\ UNCHANGED <<app_vars, call>>

EvalCentered ==
    /\ call.fn = "centered_crop_for_ratio" /\ ~ret.done
    /\ ret' = [NoRet EXCEPT !.done = TRUE,
                  !.box = centered_crop_for_ratio(call.image[1], call.image[2], call.ratio)]
    /\ UNCHANGED <<app_vars, call>>

\* What a call returned.
Ret(r, rect) == [done |-> TRUE, raised |-> r.raised, box |-> r.box, rect |-> rect]

\* Canvas -> image with no ratio pinned.
MapBack(image, canvas_size, rect) ==
    Ret(crop_box_from_canvas_drag(image[1], image[2], canvas_size[1], canvas_size[2],
                                  rect[1], rect[2], rect[3], rect[4], None), rect)

\* Image -> canvas as _draw_canvas draws the box, then canvas -> image.
EvalRoundTrip ==
    /\ call.fn = "round_trip" /\ ~ret.done
    /\ ret' = MapBack(call.image, call.canvas,
                      _draw_canvas(call.image, call.canvas[1], call.canvas[2], call.box))
    /\ UNCHANGED <<app_vars, call>>

EvalDrag ==
    /\ call.fn = "crop_box_from_canvas_drag" /\ ~ret.done
    /\ ret' = Ret(crop_box_from_canvas_drag(call.image[1], call.image[2],
                      call.canvas[1], call.canvas[2],
                      call.drag[1], call.drag[2], call.drag[3], call.drag[4], call.ratio),
                  NoRect)
    /\ UNCHANGED <<app_vars, call>>

\* --------------------------------------------------------- the application
\* The worker threads of a run: thread e runs the e-th export that is started.
MaxExports == 2

File(w, h) == [exists |-> TRUE, w |-> w, h |-> h]
NoFile == [exists |-> FALSE, w |-> 0, h |-> 0]
\* A file that exists and holds no readable video (empty, or half written).
Partial == File(0, 0)
Readable(f) == f.exists /\ f.w > 0 /\ f.h > 0

Original == <<"video", 1>>
UserPaths == {Original, <<"out", 1>>}
TempPath(slot) == <<"tmp", slot>>
Paths == UserPaths \cup {TempPath(e) : e \in 1..MaxExports}

\* The canvas of _build_ui, as winfo_width() x winfo_height() report it.
canvas == <<MaxCanvas, MaxCanvas>>
\* Where the mouse events of the model fall: the button is pressed on the
\* bottom right corner of the canvas, and the pointer moves there or inside.
PressPoints == {<<MaxCanvas, MaxCanvas>>}
MousePoints == {<<MaxCanvas - 1, MaxCanvas - 1>>, <<MaxCanvas, MaxCanvas>>}
\* The presets the user of the model picks.
PresetNames == {"Freeform", "YouTube"}

Slots == 1..MaxExports
\* The crop box and the video path at the click that started an export, kept
\* until its thread reads them (where the trace is followed).
NoClick == [box |-> NoBox, src |-> NoPath]
FreeSlot ==
    [pc |-> "free", output |-> NoPath, finalize |-> FALSE, size |-> NoImage, clicked |-> NoClick]

\* What a step did: the thread that ran it, the operation, the failure of an
\* external step in it ("none" if none), whether a modal error was shown and
\* a log line appended for it, the shared state a worker touched, and the
\* output path of the export the step belongs to.
Event(thread, op, failure, modal, logged, touched, output) ==
    [thread |-> thread, op |-> op, failure |-> failure, modal |-> modal,
     logged |-> logged, touched |-> touched, output |-> output]
Ui(op) == Event("ui", op, "none", FALSE, FALSE, {}, NoPath)
\* A callback of the UI thread in which no external step failed.
Handled == Ui("callback")
\* except Exception: messagebox.showerror(...); self._log(...)
UiCaught(op, failure) == Event("ui", op, failure, TRUE, TRUE, {}, NoPath)

\* The playback state of the application.  The specifications that are not
\* about playback do not follow it (followed = FALSE): it has no effect on the
\* rest of the state, a snapshot of the player and extract_frame yielding
\* frames of the same size.
\*   media_player: self.media_player is not None
\*   duration:     self.duration > 0
\*   is_playing:   self.is_playing
\*   playback_job: a call of _poll_playback is scheduled with root.after
NoPlayer ==
    [followed |-> FALSE, media_player |-> FALSE, duration |-> FALSE,
     is_playing |-> FALSE, playback_job |-> FALSE]
Plays(p) == IF player.followed THEN p ELSE player

\* The handler that changed the crop box last, with what it began and ended
\* with.  Only the specification of the playback follows it.
\*   dragging: the button was pressed on a loaded image (self.drag_start)
\*   empty:    the crop box had width 0
\*   pinned:   a ratio is pinned when it ends
\*   full:     the crop box is the full frame of the image when it ends
NoTrace ==
    [followed |-> FALSE, op |-> "none", dragging |-> FALSE, empty |-> FALSE,
     pinned |-> FALSE, full |-> FALSE]
Traced(op) ==
    IF trace.followed /\ crop_box' # crop_box
    THEN [followed |-> TRUE, op |-> op,
          dragging |-> drag_start # NoPoint /\ current_image # NoImage,
          empty |-> crop_box.width = 0,
          pinned |-> aspect_ratio' # None,
          full |-> crop_box' = full_frame_crop(current_image'[1], current_image'[2])]
    ELSE trace

AppInit ==
    /\ video_path = NoPath
    /\ current_image = NoImage
    /\ crop_box = CropBox(0, 0, 0, 0)
    /\ drag_start = NoPoint
    /\ aspect_ratio = None
    /\ fs = [p \in Paths |-> IF p = Original THEN File(MaxImg - 1, MaxImg - 1) ELSE NoFile]
    /\ exports = [e \in Slots |-> FreeSlot]
    /\ after_queue = <<>>
    /\ last = Ui("init")
    /\ player = NoPlayer
    /\ trace = NoTrace

\* _load_frame_at: how the frame is obtained is the environment's choice.
\*   "frame": the media player's snapshot or extract_frame yields a frame,
\*            which has the size of the video;
\*   "raise": no snapshot, and extract_frame raises.
FrameSources(file) == (IF Readable(file) THEN {"frame"} ELSE {}) \cup {"raise"}
FrameOf(file) == <<file.w, file.h>>

_reset_crop_to_full_frame(image) == CropBox(0, 0, image[1], image[2])

\* A _load_frame_at that ignores reset_crop.
ResetsEmptyCrop(reset_crop, box) == box.width = 0

\* A _load_frame_at that resets the crop box of every frame it loads.
ResetsAnyCrop(reset_crop, box) == TRUE

\* if reset_crop or self.crop_box.width == 0
ResetsCrop(reset_crop, box) == reset_crop \/ box.width = 0

\* The crop box after _load_frame_at loaded `image`.
_load_frame_at(image, reset_crop, box) ==
    IF ResetsCrop(reset_crop, box) THEN _reset_crop_to_full_frame(image) ELSE box

\* probe_video, _load_media_player, _update_info, _load_preview_frame: the
\* body of the try block of _choose_video and of _reload_after_export.
OpenPath(op, path) ==
    /\ video_path' = path
    /\ \/ /\ last' = UiCaught(op, "probe")
          /\ UNCHANGED <<current_image, crop_box, player>>
       \/ /\ Readable(fs[path])
          /\ player' = Plays([player EXCEPT !.media_player = TRUE, !.duration = TRUE])
          /\ \E how \in FrameSources(fs[path]) :
                IF how = "raise"
                THEN /\ last' = UiCaught(op, "extract")
                     /\ UNCHANGED <<current_image, crop_box>>
                ELSE /\ current_image' = FrameOf(fs[path])
                     /\ crop_box' = _load_frame_at(current_image', TRUE, crop_box)
                     /\ last' = Ui(op)

_choose_video ==
    /\ \/ /\ last' = Handled
          /\ UNCHANGED <<video_path, current_image, crop_box, player>>
       \/ \E path \in {p \in UserPaths : fs[p].exists} : OpenPath("open", path)
    /\ UNCHANGED <<drag_start, aspect_ratio, fs, exports, after_queue, call, ret>>
    /\ trace' = Traced("open")

_reload_after_export ==
    /\ after_queue # <<>>
    /\ OpenPath("reload", Head(after_queue))
    /\ after_queue' = Tail(after_queue)
    /\ UNCHANGED <<drag_start, aspect_ratio, fs, exports, call, ret>>
    /\ trace' = Traced("reload")

_apply_preset ==
    /\ \E name \in PresetNames :
          /\ aspect_ratio' = ASPECT_PRESETS[name]
          /\ crop_box' = IF current_image # NoImage /\ aspect_ratio' # None
                         THEN _set_box_from_ratio(current_image, aspect_ratio')
                         ELSE crop_box
    /\ last' = Handled
    /\ UNCHANGED <<video_path, current_image, drag_start, fs, exports,
                   after_queue, call, ret>>
    /\ UNCHANGED player
    /\ trace' = Traced("preset")

_on_press ==
    /\ \E pt \in PressPoints :
          drag_start' = IF current_image = NoImage THEN drag_start ELSE pt
    /\ last' = Handled
    /\ UNCHANGED <<video_path, current_image, crop_box, aspect_ratio, fs,
                   exports, after_queue, call, ret>>
    /\ UNCHANGED player
    /\ trace' = Traced("press")

\* An uncaught ZeroDivisionError leaves the crop box as it was.
BoxAfter(r, box) == IF r.raised THEN box ELSE r.box

_on_drag ==
    /\ \E pt \in MousePoints :
          IF drag_start = NoPoint \/ current_image = NoImage
          THEN UNCHANGED crop_box
          ELSE crop_box' = BoxAfter(
                   _update_crop_from_canvas(current_image, canvas[1], canvas[2],
                       Min(drag_start[1], pt[1]), Min(drag_start[2], pt[2]),
                       Max(drag_start[1], pt[1]), Max(drag_start[2], pt[2]),
                       aspect_ratio), crop_box)
    /\ last' = Handled
    /\ UNCHANGED <<video_path, current_image, drag_start, aspect_ratio, fs,
                   exports, after_queue, call, ret>>
    /\ UNCHANGED player
    /\ trace' = Traced("drag")

_on_release ==
    /\ drag_start' = NoPoint
    /\ last' = Handled
    /\ UNCHANGED <<video_path, current_image, crop_box, aspect_ratio, fs,
                   exports, after_queue, call, ret>>
    /\ UNCHANGED player
    /\ trace' = Traced("release")

\* What ffmpeg's crop filter accepts: a readable input and a box inside it.
CropAccepted(file, box) == Readable(file) /\ BoxWithin(box, <<file.w, file.h>>)

_preview_crop ==
    /\ IF video_path = NoPath
       THEN /\ last' = Handled
            /\ UNCHANGED current_image
       ELSE \/ /\ last' = UiCaught("preview", "crop")
               /\ UNCHANGED current_image
            \/ /\ CropAccepted(fs[video_path], crop_box)
               /\ current_image' = <<crop_box.width, crop_box.height>>
               /\ last' = Handled
    /\ UNCHANGED <<video_path, crop_box, drag_start, aspect_ratio, fs,
                   exports, after_queue, call, ret>>
    /\ UNCHANGED player
    /\ trace' = Traced("preview")

\* An uncaught exception of extract_frame ends the callback: no dialog, no log line.
_on_seek ==
    /\ IF video_path = NoPath
       THEN /\ last' = Handled
            /\ UNCHANGED <<current_image, crop_box>>
       ELSE \E how \in FrameSources(fs[video_path]) :
               IF how = "raise"
               THEN /\ last' = Event("ui", "seek", "extract", FALSE, FALSE, {}, NoPath)
                    /\ UNCHANGED <<current_image, crop_box>>
               ELSE /\ current_image' = FrameOf(fs[video_path])
                    /\ crop_box' = _load_frame_at(current_image', FALSE, crop_box)
                    /\ last' = Handled
    /\ UNCHANGED <<video_path, drag_start, aspect_ratio, fs, exports,
                   after_queue, call, ret>>
    /\ UNCHANGED player
    /\ trace' = Traced("seek")

\* ------------------------------------------------------------------ exports
\* The exports not started yet, and the thread the next one gets.
CanStart == \E e \in Slots : exports[e].pc = "free"
NextSlot == CHOOSE e \in Slots : exports[e].pc = "free" /\ \A f \in 1..(e - 1) : exports[f].pc # "free"

\* threading.Thread(target=self._run_export, args=(output,), ...).start()
\* A thread that has ended.
Ended == [FreeSlot EXCEPT !.pc = "ended"]
Clicked == IF trace.followed THEN [box |-> crop_box, src |-> video_path] ELSE NoClick
Spawn(output, finalize) ==
    [FreeSlot EXCEPT !.pc = "spawned", !.output = output, !.finalize = finalize,
                     !.clicked = Clicked]

_save_as_video ==
    /\ IF video_path = NoPath
       THEN /\ last' = Handled
            /\ UNCHANGED exports
       ELSE \/ /\ last' = Handled
               /\ UNCHANGED exports
            \/ /\ CanStart
               /\ \E output \in UserPaths :
                     exports' = [exports EXCEPT ![NextSlot] = Spawn(output, FALSE)]
               /\ last' = Handled
    /\ UNCHANGED <<video_path, current_image, crop_box, drag_start, aspect_ratio,
                   fs, after_queue, call, ret>>
    /\ UNCHANGED player
    /\ trace' = Traced("save_as")

\* The temporary file is created beside the video: only a dialog reports that
\* it could not be.
_save_overwrite ==
    /\ IF video_path = NoPath
       THEN /\ last' = Handled
            /\ UNCHANGED <<fs, exports, player>>
       ELSE /\ CanStart
            /\ player' = Plays([player EXCEPT !.media_player = FALSE])
            /\ \/ /\ last' = Event("ui", "save", "tempfile", TRUE, FALSE, {}, NoPath)
                  /\ UNCHANGED <<fs, exports>>
               \/ /\ fs' = [fs EXCEPT ![TempPath(NextSlot)] = Partial]
                  /\ exports' = [exports EXCEPT ![NextSlot] = Spawn(TempPath(NextSlot), TRUE)]
                  /\ last' = Handled
    /\ UNCHANGED <<video_path, current_image, crop_box, drag_start, aspect_ratio,
                   after_queue, call, ret>>
    /\ trace' = Traced("save")

\* The except block of _run_export, on the worker thread: the output is
\* unlinked if it exists, the error is logged and shown.  `files` is the
\* file system as the failed step left it.
Handle(e, failure, files, touched) ==
    /\ fs' = [files EXCEPT ![exports[e].output] = NoFile]
    /\ last' = Event("worker", "export_error", failure, TRUE, TRUE,
                     touched \cup {"log_box", "dialog"}, NoPath)

\* The worker thread begins: _run_export reads self.video_path and
\* self.crop_box and crop_video starts ffmpeg, which opens its output.
RunExportStart(e) ==
    /\ exports[e].pc = "spawned"
    /\ LET output == exports[e].output
           opens == Readable(fs[video_path]) /\ video_path # output
       IN  \/ /\ Handle(e, "tool_missing", fs, {"video_path", "crop_box"})
              /\ exports' = [exports EXCEPT ![e].pc = "error_dialog", ![e].clicked = NoClick]
           \/ /\ fs' = IF opens THEN [fs EXCEPT ![output] = Partial] ELSE fs
              /\ exports' = [exports EXCEPT ![e].pc = "cropping", ![e].clicked = NoClick,
                                ![e].size = IF opens /\ CropAccepted(fs[video_path], crop_box)
                                            THEN <<crop_box.width, crop_box.height>>
                                            ELSE NoImage]
              /\ last' = Event("worker", "export_start", "none", FALSE, FALSE,
                               {"video_path", "crop_box"}, NoPath)
    /\ UNCHANGED <<video_path, current_image, crop_box, drag_start, aspect_ratio,
                   after_queue, call, ret>>
    /\ UNCHANGED player
    /\ trace' = Traced("export_start")

\* _finalize_overwrite: <<outcome, file system after it>> for each way it can
\* go: replaced, unlink raised, rename raised.
FinalizeOutcomes(files, temp) ==
    (IF files[temp].exists
     THEN {<<"ok", [files EXCEPT ![video_path] = files[temp], ![temp] = NoFile]>>}
     ELSE {})
    \cup (IF files[video_path].exists THEN {<<"raise", files>>} ELSE {})
    \cup {<<"raise", [files EXCEPT ![video_path] = NoFile]>>}

\* ffmpeg ends: crop_video returns or raises, then the finalize step, the
\* "Export complete!" line, root.after and the dialog (whose dismissal ends
\* the thread and changes nothing), or the except block.
RunExportEnd(e) ==
    /\ exports[e].pc = "cropping"
    /\ LET x == exports[e]
           written == IF fs[x.output].exists
                      THEN [fs EXCEPT ![x.output] = File(x.size[1], x.size[2])] ELSE fs
           Complete(path, files, touched) ==
               /\ fs' = files
               /\ after_queue' = Append(after_queue, path)
               /\ exports' = [exports EXCEPT ![e] = Ended]
               /\ last' = Event("worker", "export_complete", "none", FALSE, FALSE,
                                touched \cup {"log_box", "dialog"}, NoPath)
           Fail(failure, files, touched) ==
               /\ Handle(e, failure, files, touched)
               /\ exports' = [exports EXCEPT ![e].pc = "error_dialog", ![e].size = NoImage]
               /\ UNCHANGED after_queue
       IN  \/ Fail("crop", fs, {"log_box"})
           \/ /\ x.size # NoImage
              /\ IF x.finalize
                 THEN \E o \in FinalizeOutcomes(written, x.output) :
                         IF o[1] = "ok" THEN Complete(video_path, o[2], {"video_path"})
                         ELSE Fail("replace", o[2], {"video_path"})
                 ELSE Complete(x.output, written, {})
    /\ UNCHANGED <<video_path, current_image, crop_box, drag_start, aspect_ratio,
                   call, ret>>
    /\ UNCHANGED player
    /\ trace' = Traced("export_end")

\* The error dialog of the except block is dismissed and the thread ends.
RunExportDismiss(e) ==
    /\ exports[e].pc = "error_dialog"
    /\ last' = Event("worker", "export_failed", "none", FALSE, FALSE, {}, exports[e].output)
    /\ exports' = [exports EXCEPT ![e] = Ended]
    /\ UNCHANGED <<video_path, current_image, crop_box, drag_start, aspect_ratio,
                   fs, after_queue, call, ret>>
    /\ UNCHANGED player
    /\ trace' = Traced("export_dismiss")

\* ----------------------------------------------------------------- playback
\* _stop_playback: is_playing = False, the player is paused and the pending
\* poll, if any, is cancelled.
_stop_playback(p) == [p EXCEPT !.is_playing = FALSE, !.playback_job = FALSE]

\* The images _capture_vlc_snapshot may leave in self.current_image: the one
\* it held (no snapshot), or a frame of the video.
Snapshots ==
    {current_image} \cup (IF Readable(fs[video_path]) THEN {FrameOf(fs[video_path])} ELSE {})

\* The body of _poll_playback for the playback state p, with no poll pending
\* as it begins.  The position and the state of the player are the
\* environment's choice: "playing" reschedules the poll, "over" is the end of
\* the video or vlc.State.Ended / Error.
_poll_playback(p) ==
    IF ~p.is_playing \/ ~p.media_player
    THEN /\ player' = p
         /\ UNCHANGED current_image
    ELSE /\ current_image' \in Snapshots
         /\ \E state \in {"playing", "over"} :
               player' = IF state = "over" THEN _stop_playback(p)
                         ELSE [p EXCEPT !.playback_job = TRUE]

_toggle_playback ==
    /\ player.followed
    /\ IF video_path = NoPath \/ ~player.duration
       THEN UNCHANGED <<player, current_image>>
       ELSE IF player.is_playing
            THEN /\ player' = _stop_playback(player)
                 /\ UNCHANGED current_image
            ELSE _poll_playback([player EXCEPT !.is_playing = TRUE])
    /\ last' = Handled
    /\ UNCHANGED <<video_path, crop_box, drag_start, aspect_ratio, fs, exports,
                   after_queue, call, ret>>
    /\ trace' = Traced("toggle")

\* The poll that root.after scheduled runs.
PollTimer ==
    /\ player.followed /\ player.playback_job
    /\ _poll_playback([player EXCEPT !.playback_job = FALSE])
    /\ last' = Handled
    /\ UNCHANGED <<video_path, crop_box, drag_start, aspect_ratio, fs, exports,
                   after_queue, call, ret>>
    /\ trace' = Traced("poll")

\* ------------------------------------------------------------ specifications
Init == AppInit /\ call = NoCall /\ ret = NoRet

Next ==
    \/ _choose_video
    \/ _apply_preset
    \/ _on_press
    \/ _on_drag
    \/ _on_release
    \/ _preview_crop
    \/ _on_seek
    \/ _save_as_video
    \/ _save_overwrite
    \/ _reload_after_export
    \/ \E e \in Slots : RunExportStart(e)
    \/ \E e \in Slots : RunExportEnd(e)
    \/ \E e \in Slots : RunExportDismiss(e)

Spec == Init /\ [][Next]_vars

\* The application with its playback, after a first export has ended.
PlaybackInit ==
    /\ call = NoCall /\ ret = NoRet
    /\ video_path = NoPath
    /\ current_image = NoImage
    /\ crop_box = CropBox(0, 0, 0, 0)
    /\ drag_start = NoPoint
    /\ aspect_ratio = None
    /\ fs = [p \in Paths |-> IF p = Original THEN File(MaxImg - 1, MaxImg - 1) ELSE NoFile]
    /\ exports = [e \in Slots |-> IF e = 1 THEN FreeSlot ELSE Ended]
    /\ after_queue = <<>>
    /\ last = Ui("init")
    /\ player = [NoPlayer EXCEPT !.followed = TRUE]
    /\ trace = [NoTrace EXCEPT !.followed = TRUE]
PlaybackNext == Next \/ _toggle_playback \/ PollTimer
PlaybackSpec == PlaybackInit /\ [][PlaybackNext]_vars

\* The letterbox, the centred preset box and the round trip of a box.
GeomInit == AppInit /\ ret = NoRet /\ call \in DisplayRectCalls \cup CenteredCalls \cup RoundTripCalls
GeomNext == EvalDisplayRect \/ EvalCentered \/ EvalRoundTrip
GeomSpec == GeomInit /\ [][GeomNext]_vars

\* Drags of the canvas.
DragInit ==
    /\ AppInit /\ ret = NoRet
    /\ \E i \in ImageSizes : \E c \in CanvasSizes : \E r \in Ratios :
          \E x0 \in DragCoords(c[1]) : \E x1 \in DragCoords(c[1]) :
             \E y0 \in DragCoords(c[2]) : \E y1 \in DragCoords(c[2]) :
                call = Call("crop_box_from_canvas_drag", i, c, <<x0, y0, x1, y1>>, r, NoBox)
DragNext == EvalDrag
DragSpec == DragInit /\ [][DragNext]_vars

\* The library functions of core.py beside the methods of the application
\* that they were extracted from, on the same inputs: ret is what the function
\* of core.py returns, crop_box what the method stores in self.crop_box.
\* An exception that leaves a Tk callback uncaught.
Uncaught(op, failure) == Event("ui", op, failure, FALSE, FALSE, {}, NoPath)

MirrorCalls ==
    {Call("mirror_centered", i, NoImage, NoDrag, r, NoBox) :
        i \in ImageSizes \cup InexactImageSizes, r \in PinnedRatios}

MirrorInit ==
    /\ ret = NoRet
    /\ \/ call \in MirrorCalls
       \/ \E i \in ImageSizes : \E c \in CanvasSizes : \E r \in Ratios :
             \E x0 \in DragCoords(c[1]) : \E x1 \in DragCoords(c[1]) :
                \E y0 \in DragCoords(c[2]) : \E y1 \in DragCoords(c[2]) :
                   call = Call("mirror_drag", i, c, <<x0, y0, x1, y1>>, r, NoBox)
    /\ video_path = Original
    /\ current_image = call.image
    /\ crop_box = CropBox(0, 0, 0, 0)
    /\ drag_start = NoPoint
    /\ aspect_ratio = call.ratio
    /\ fs = [p \in Paths |-> IF p = Original THEN File(call.image[1], call.image[2]) ELSE NoFile]
    /\ exports = [e \in Slots |-> FreeSlot]
    /\ after_queue = <<>>
    /\ last = Ui("init")
    /\ player = NoPlayer
    /\ trace = NoTrace

Stored(r) ==
    /\ crop_box' = BoxAfter(r, crop_box)
    /\ last' = IF r.raised THEN Uncaught("drag", "ZeroDivisionError") ELSE Handled

MirrorDrag ==
    /\ call.fn = "mirror_drag" /\ ~ret.done
    /\ ret' = Ret(crop_box_from_canvas_drag(call.image[1], call.image[2],
                      call.canvas[1], call.canvas[2],
                      call.drag[1], call.drag[2], call.drag[3], call.drag[4], call.ratio),
                  NoRect)
    /\ Stored(_update_crop_from_canvas(current_image, call.canvas[1], call.canvas[2],
                  call.drag[1], call.drag[2], call.drag[3], call.drag[4], aspect_ratio))
    /\ UNCHANGED <<video_path, current_image, drag_start, aspect_ratio, fs, exports,
                   after_queue, player, trace, call>>

MirrorCentered ==
    /\ call.fn = "mirror_centered" /\ ~ret.done
    /\ ret' = [NoRet EXCEPT !.done = TRUE,
                  !.box = centered_crop_for_ratio(call.image[1], call.image[2], call.ratio)]
    /\ crop_box' = _set_box_from_ratio(current_image, aspect_ratio)
    /\ last' = Handled
    /\ UNCHANGED <<video_path, current_image, drag_start, aspect_ratio, fs, exports,
                   after_queue, player, trace, call>>

MirrorNext == MirrorDrag \/ MirrorCentered
MirrorSpec == MirrorInit /\ [][MirrorNext]_vars

\* ------------------------------------------------------------------ claims
\* C1: once a frame is loaded, after any sequence of UI operations the crop
\* box lies inside the loaded image and has width and height >= 1.
C1_CropBoxInsideImage == current_image # NoImage => BoxWithin(crop_box, current_image)

\* C2: for every image size, canvas size, drag rectangle and ratio (or none),
\* crop_box_from_canvas_drag returns a box with width, height >= 1 that lies
\* inside the image.
C2_DragReturnsBoxInside ==
    call.fn = "crop_box_from_canvas_drag" /\ ret.done
        => ~ret.raised /\ BoxWithin(ret.box, call.image)

RoundTripDone == call.fn = "round_trip" /\ ret.done
Within1(a, b) == a - b \in {0 - 1, 0, 1}
Reproduced ==
    /\ ~ret.raised
    /\ Within1(ret.box.x, call.box.x) /\ Within1(ret.box.y, call.box.y)
    /\ Within1(ret.box.width, call.box.width) /\ Within1(ret.box.height, call.box.height)
\* The image is displayed at its own size or larger.
Upscaled(d) == d[1] >= call.image[1] /\ d[2] >= call.image[2]
CallUpscaled == Upscaled(_display_rect(call.image[1], call.image[2], call.canvas[1], call.canvas[2]))

\* C3, as stated: for every box inside the image and every image and canvas
\* size, mapping the box to the canvas and back reproduces x, y, width and
\* height each within 1 pixel.
C3_RoundTripAnySize == RoundTripDone => Reproduced

\* C3, amended: the round trip reproduces x, y, width and height each within
\* 1 pixel when the image is displayed at its own size or larger on both axes.
C3_RoundTripUpscaled == RoundTripDone /\ CallUpscaled => Reproduced

\* An enlarged image whose box comes back one pixel off.
C3_Witness == RoundTripDone /\ CallUpscaled /\ ret.box.x # call.box.x

FitsCanvas(d, canvas_size) ==
    /\ d[1] <= canvas_size[1] /\ d[2] <= canvas_size[2]
    /\ d[3] >= 0 /\ d[4] >= 0
    /\ d[3] + d[1] <= canvas_size[1] /\ d[4] + d[2] <= canvas_size[2]
\* One dimension is the canvas's, the other the floor of the proportional value.
Proportional(d, image, canvas_size) ==
    \/ d[1] = canvas_size[1] /\ d[2] = (canvas_size[1] * image[2]) \div image[1]
    \/ d[2] = canvas_size[2] /\ d[1] = (canvas_size[2] * image[1]) \div image[2]

\* C4: for every image and canvas size, _display_rect returns a rectangle
\* that fits within the canvas, one dimension of which is the canvas's and
\* the other the floor of the exactly proportional value.
C4_DisplayRectFitsProportional ==
    call.fn = "_display_rect" /\ ret.done
        => FitsCanvas(ret.rect, call.canvas) /\ Proportional(ret.rect, call.image, call.canvas)

\* Full width with height floor(image_width / ratio), or full height with
\* width floor(image_height * ratio).
LargestOfRatio(box, image, ratio) ==
    \/ /\ box.width = image[1]
       /\ box.height = (image[1] * ratio[2]) \div ratio[1]
       /\ box.height <= image[2]
    \/ /\ box.height = image[2]
       /\ box.width = (image[2] * ratio[1]) \div ratio[2]
       /\ box.width <= image[1]

\* C5: for every image size and every ratio > 0, centered_crop_for_ratio
\* returns the largest rectangle of the ratio that fits in the image, centred:
\* x = (image_width - width) // 2, y = (image_height - height) // 2.
C5_CenteredLargestOfRatio ==
    call.fn = "centered_crop_for_ratio" /\ ret.done
        => /\ ret.box.x = (call.image[1] - ret.box.width) \div 2
           /\ ret.box.y = (call.image[2] - ret.box.height) \div 2
           /\ LargestOfRatio(ret.box, call.image, call.ratio)

\* C6: at most one export is in flight: never are two worker threads running
\* crop_video at the same time.
C6_OneExportInFlight == Cardinality({e \in Slots : exports[e].pc = "cropping"}) <= 1

\* C7: the crop box, the image and the widgets are read and written by the UI
\* thread only: a step of a worker thread touches none of them.
C7_WorkerTouchesNoSharedState ==
    last.thread = "worker"
        => last.touched \cap {"crop_box", "current_image", "log_box", "dialog"} = {}

\* C8: every failure of an external step, in whichever UI action, is shown in
\* a modal error message and appended to the log.
C8_FailureShownAndLogged == last.failure # "none" => last.modal /\ last.logged

\* C9: when an export has failed and its error handling has finished, the
\* file it was writing does not exist.
C9_FailedOutputRemoved == last.op = "export_failed" => ~fs[last.output].exists

Loaded == last \in {Ui("open"), Ui("reload")}

\* C10: after a video is opened successfully, and after the reload that
\* follows a successful export, the crop box is the full frame of the loaded
\* image, whatever the crop box and the preset were before.
C10_FullFrameAfterLoad ==
    Loaded => crop_box = full_frame_crop(current_image[1], current_image[2])

\* A cropped video is reloaded while a preset is pinned.
C10_Witness ==
    /\ last = Ui("reload")
    /\ aspect_ratio # None
    /\ current_image # <<MaxImg - 1, MaxImg - 1>>

DragDone == call.fn = "crop_box_from_canvas_drag" /\ ret.done

\* C16: with a ratio pinned, crop_box_from_canvas_drag returns a box whose
\* width is int(height * ratio), or 1 when that is 0, also when the box was
\* clamped at the edge of the image.
C16_PinnedWidthKept ==
    DragDone /\ call.ratio # None /\ ~ret.raised
        => ret.box.width = Max(1, IntMul(ret.box.height, call.ratio[1], call.ratio[2]))

\* C17: for every positive image and canvas size the display rectangle has
\* width and height >= 1, and crop_box_from_canvas_drag does not raise
\* ZeroDivisionError.
C17_DisplayNeverEmpty ==
    DragDone
        => /\ _display_rect(call.image[1], call.image[2], call.canvas[1], call.canvas[2])[1] >= 1
           /\ _display_rect(call.image[1], call.image[2], call.canvas[1], call.canvas[2])[2] >= 1
           /\ ~ret.raised

\* C12: on identical inputs crop_box_from_canvas_drag returns exactly the box
\* that _update_crop_from_canvas stores (and raises exactly when it raises),
\* and centered_crop_for_ratio returns exactly the box that
\* _set_box_from_ratio stores.
C12_CoreMirrorsApp ==
    call.fn \in {"mirror_drag", "mirror_centered"} /\ ret.done
        => /\ ret.raised <=> last = Uncaught("drag", "ZeroDivisionError")
           /\ crop_box = IF ret.raised THEN CropBox(0, 0, 0, 0) ELSE ret.box

\* A drag with a pinned ratio whose box the clamp at the edge has cut.
C12_Witness ==
    /\ call.fn = "mirror_drag" /\ ret.done /\ ~ret.raised
    /\ call.ratio # None
    /\ crop_box.width > 1
    /\ crop_box.width # IntMul(crop_box.height, call.ratio[1], call.ratio[2])

\* The crop box was last changed by the load of a frame that reset it to the
\* full frame, by a drag with the button pressed on a loaded image, or by the
\* selection of a preset that pins a ratio.
ChangedAsStated ==
    \/ trace.op \in {"open", "reload"} /\ trace.full
    \/ trace.op = "drag" /\ trace.dragging
    \/ trace.op = "preset" /\ trace.pinned

\* C11: the crop box is changed only by a frame load (which resets it to the
\* full frame), by a drag between press and release while an image is loaded,
\* or by the selection of an aspect preset; seeking, the playback poll,
\* Preview Crop, selecting Freeform, mouse motion with no press before it and
\* starting an export leave it unchanged.
C11_CropBoxChangedOnlyAsStated == trace.op # "none" => ChangedAsStated

\* C11, amended: as C11, except that a seek on a crop box of width 0 resets it
\* to the full frame of the frame it loads.
C11_CropBoxChangedOnlyAsStatedOrEmpty ==
    trace.op # "none"
        => ChangedAsStated \/ (trace.op = "seek" /\ trace.empty /\ trace.full)

\* A seek has reset an empty crop box, and the playback then polled with a
\* ratio pinned and the button pressed without changing it.
C11_Witness ==
    /\ trace.op = "seek"
    /\ player.is_playing /\ player.playback_job
    /\ aspect_ratio # None
    /\ drag_start # NoPoint
    /\ \E e \in Slots : exports[e].pc = "cropping"

\* A Save (overwrite) has finished: its finalize step has replaced the video
\* or has failed.
OverwriteFinished ==
    \/ last.op = "export_error" /\ last.failure = "replace"
    \/ last.op = "export_complete" /\ "video_path" \in last.touched

\* C13: Save (overwrite) never loses the video: when the action has finished,
\* in success or in failure, a file exists at the path of the video.
C13_OverwriteKeepsVideo == OverwriteFinished => fs[video_path].exists

\* C14: the crop box and the source path that an export passes to the cropper
\* are those of the moment the user clicked Save / Save As: whenever the
\* worker thread may read them, they are what they were at the click.
C14_ExportUsesClickedBox ==
    \A e \in Slots :
        exports[e].pc = "spawned"
            => exports[e].clicked = [box |-> crop_box, src |-> video_path]

\* C15: whenever is_playing is true a media player exists and a poll is
\* pending, and whenever the playback has stopped (is_playing is false) no
\* poll is pending.
C15_PlaybackConsistent ==
    IF player.is_playing
    THEN player.media_player /\ player.playback_job
    ELSE ~player.playback_job

====
